---- MODULE Spec2Model ----
(***************************************************************************)
(* A model of src/src/main.py: the time-string parser, the bounded         *)
(* Rayleigh delay sampler, the task loader, the job callbacks, the         *)
(* retried submission and the polling loop of the reporting tool.          *)
(*                                                                         *)
(* Python values are modelled as follows.  A duration given in the         *)
(* configuration is a record [isStr, str, num]: a string (a sequence of    *)
(* one-character strings) or a number.  The result of parse_time_string    *)
(* is a record [none, val]: None, or a number.  Seconds handled by the     *)
(* sampler are fixed-point numbers in hundredths of a second.              *)
(***************************************************************************)
EXTENDS Integers, Sequences, FiniteSets, TLC

(***************************************************************************)
(* Bounds of the model.                                                    *)
(***************************************************************************)
MaxLen == 4          \* longest duration string given to the parser
MaxNum == 3          \* largest numeric (non-string) parser input
MaxSigma == 7        \* largest scale given to the sampler on its own
MaxUpbound == 7      \* largest finite bound given to the sampler on its own
MaxTasks == 2        \* longest task list of tasks.yaml
MaxTime == 8         \* last second of the polling loop that is explored

(***************************************************************************)
(* Program constants.                                                      *)
(***************************************************************************)
Tries == 10          \* @retry(..., tries=10, ...) of send_request_with_retry
MinJitter == 5       \* "at least 5 secs" of do_task_check
Inf == 1000000       \* math.inf: above every finite value of the model
RecursionLimit == 3  \* depth of Python's call stack left to rayleigh_dist
                     \* (1000 frames in CPython, scaled down)
DaySecs == 6         \* seconds of one day (86400, scaled down)

VARIABLES
    input,      \* parser: the argument s of parse_time_string
    output,     \* parser: [done, none, val], the value returned
    smp,        \* sampler: [status, sigma, upbound, depth, result]
    cfg,        \* tasks.yaml: [state, tasks]
    fileContent,\* the content of each valid profile file
    pc,         \* position of the process: load, poll, jobs, sampling,
                \* sending, exited, crashed
    loaded,     \* what load_tasks returned: "pending", "ok" or "failed"
    exitStatus, \* status of exit(), 0 while the process has not called it
    jobs,       \* schedule's job list
    nextJid,    \* identity given to the next job created
    now,        \* the clock, in seconds since the start
    pending,    \* the jobs of this run_pending round still to run
    cur,        \* the job whose callback is executing
    data,       \* do_task: the profile it read
    posts,      \* send_request_with_retry: the outcome of each attempt made
                \* by the current call (or the last one of this round)
    runs,       \* history: how often each job's callback was started
    submitted,  \* history: ids of the tasks a POST was attempted for
    exhausted,  \* history: a submission failed on all of its attempts
    lastCheck   \* history: how the last do_task_check of this round ended

pvars == <<input, output>>
mvars == <<cfg, fileContent, pc, loaded, exitStatus, jobs, nextJid, now,
           pending, cur, data, posts, runs, submitted, exhausted, lastCheck>>
vars == <<input, output, smp, cfg, fileContent, pc, loaded, exitStatus, jobs,
          nextJid, now, pending, cur, data, posts, runs, submitted, exhausted,
          lastCheck>>

(***************************************************************************)
(* parse_time_string (lines 113-126).                                      *)
(***************************************************************************)
\* the characters of the model: those \d matches, and the others
Digits == {"0", "2", "5", "6"}
Alphabet == {"0", "2", "m", "s", " ", "x"}

DigitVal(c) == IF c = "2" THEN 2 ELSE IF c = "5" THEN 5 ELSE IF c = "6" THEN 6 ELSE 0

RECURSIVE ToInt(_)
\* int(ds) of a string of decimal digits
ToInt(ds) ==
    IF ds = <<>> THEN 0
    ELSE 10 * ToInt(SubSeq(ds, 1, Len(ds) - 1)) + DigitVal(ds[Len(ds)])

RECURSIVE RunLen(_, _, _)
\* the number of characters of s from position i on that lie in set cs:
\* what a greedy \d+ or \s* consumes at i
RunLen(s, i, cs) ==
    IF i <= Len(s) /\ s[i] \in cs THEN 1 + RunLen(s, i + 1, cs) ELSE 0

PyNone == [none |-> TRUE, val |-> 0]
PyInt(n) == [none |-> FALSE, val |-> n]

\* (?P<min>\d+)m at the start of s: the length of the digits of the group
\* min, 0 when the group does not match
MatchMin(s) ==
    LET n == RunLen(s, 1, Digits)
    IN IF n >= 1 /\ n + 1 <= Len(s) /\ s[n + 1] = "m" THEN n ELSE 0

\* where ((?P<min>\d+)m\s*)? ends: after the m and the white space
MinEnd(s, n1) == IF n1 > 0 THEN n1 + 2 + RunLen(s, n1 + 2, {" "}) ELSE 1

\* (?P<sec>\d+)s at position e of s: the length of the digits of the group
\* sec, 0 when the group does not match
MatchSec(s, e) ==
    LET n == RunLen(s, e, Digits)
    IN IF n >= 1 /\ e + n <= Len(s) /\ s[e + n] = "s" THEN n ELSE 0

Groups(s, n1, e1, n2) ==
    [min |-> SubSeq(s, 1, n1), sec |-> SubSeq(s, e1, e1 + n2 - 1)]

GroupsFrom(s, n1, e1) == Groups(s, n1, e1, MatchSec(s, e1))

GroupsAfter(s, n1) == GroupsFrom(s, n1, MinEnd(s, n1))

\* re.match('((?P<min>\d+)m\s*)?((?P<sec>\d+)s)?', s): the groups min and
\* sec of the match at the start of s (empty for a group that did not take
\* part).  Both groups are optional, so the match itself never fails.
ReMatch(s) == GroupsAfter(s, MatchMin(s))

\* lines 118-124
MatchValue(m) ==
    IF m.min = <<>> /\ m.sec = <<>>
    THEN PyNone
    ELSE PyInt(60 * ToInt(m.min) + ToInt(m.sec))

parse_time_string(s) ==
    IF s.isStr THEN MatchValue(ReMatch(s.str)) ELSE PyInt(s.num)

StrVal(s) == [isStr |-> TRUE, str |-> s, num |-> 0]
NumVal(n) == [isStr |-> FALSE, str |-> <<>>, num |-> n]

Strings == UNION {[1..n -> Alphabet] : n \in 0..MaxLen}
ParserInputs == {StrVal(s) : s \in Strings} \cup {NumVal(n) : n \in 0..MaxNum}

NoOutput == [done |-> FALSE, none |-> FALSE, val |-> 0]
IdleSampler == [status |-> "idle", sigma |-> 0, upbound |-> 0, depth |-> 0,
                result |-> 0]

NoPayload == [id |-> 0, profile |-> "", time |-> "", sigma |-> 0, upbound |-> 0]
NoJob == [jid |-> 0, kind |-> "none", payload |-> NoPayload, next_run |-> 0,
          period |-> 0, seen |-> ""]
NoCheck == [ended |-> FALSE, sigma |-> 0, upbound |-> 0, deferred |-> FALSE,
            sent |-> FALSE]
ProfileFiles == {"p.yaml"}

\* the contents a profile file can have; every file holds the first when
\* the process starts
Contents == {"temperature: 36.5", "temperature: 36.8"}
AtStart == [f \in ProfileFiles |-> "temperature: 36.5"]

\* the process is not running: only a function of it is being exercised
MainIdle ==
    /\ cfg = [state |-> "absent", tasks |-> <<>>]
    /\ fileContent = AtStart
    /\ pc = "none"
    /\ loaded = "pending"
    /\ exitStatus = 0
    /\ jobs = <<>>
    /\ nextJid = 1
    /\ now = 0
    /\ pending = <<>>
    /\ cur = NoJob
    /\ data = ""
    /\ posts = <<>>
    /\ runs = <<>>
    /\ submitted = {}
    /\ exhausted = FALSE
    /\ lastCheck = NoCheck

ParseInit ==
    /\ input \in ParserInputs
    /\ output = NoOutput
    /\ smp = IdleSampler
    /\ MainIdle

Parse ==
    /\ ~output.done
    /\ output' = [done |-> TRUE,
                  none |-> parse_time_string(input).none,
                  val |-> parse_time_string(input).val]
    /\ UNCHANGED <<input, smp>>
    /\ UNCHANGED mvars

ParseNext == Parse

ParseSpec == ParseInit /\ [][ParseNext]_vars

(***************************************************************************)
(* rayleigh_dist (lines 74-86).  random.random() returns a float of        *)
(* [0, 1); the draw is one of the points of UDraws, in thousandths, and    *)
(* Quantile gives sqrt(-2 * log(u)) at that point in hundredths (rounded). *)
(* A call is one frame of the interpreter's stack: the recursive call of   *)
(* line 82 raises RecursionError once RecursionLimit frames are in use.    *)
(***************************************************************************)
UDraws == <<0, 125, 250, 500, 607, 875, 980>>
Quantile == <<Inf, 204, 167, 118, 100, 52, 20>>
Draws == 1..Len(UDraws)

\* line 75-79: x for the draw k of u and the scale sigma, in hundredths
Sample(sigma, k) == IF UDraws[k] > 0 THEN sigma * Quantile[k] ELSE Inf

\* a number of seconds in hundredths
Hundredths(b) == IF b = Inf THEN Inf ELSE 100 * b

OutOfBoundStrict(x, upbound) == x > Hundredths(upbound)

\* line 80: x >= upbound
OutOfBound(x, upbound) == x >= Hundredths(upbound)

\* one execution of the body of rayleigh_dist in the frame s.depth
SamplerStep(s, k) ==
    LET x == Sample(s.sigma, k)
    IN IF OutOfBound(x, s.upbound)
       THEN IF s.upbound > 0
            THEN IF s.depth < RecursionLimit
                 THEN [s EXCEPT !.depth = s.depth + 1]
                 ELSE [s EXCEPT !.status = "raised"]
            ELSE [s EXCEPT !.status = "returned",
                           !.result = Hundredths(s.upbound)]
       ELSE [s EXCEPT !.status = "returned", !.result = x]

SamplerCall(sigma, upbound) ==
    [status |-> "sampling", sigma |-> sigma, upbound |-> upbound,
     depth |-> 1, result |-> 0]

SampleDraw(k) ==
    /\ smp.status = "sampling"
    /\ smp' = SamplerStep(smp, k)

SamplerInit ==
    /\ input = NumVal(0)
    /\ output = NoOutput
    /\ \E sigma \in 1..MaxSigma, upbound \in (-1..MaxUpbound) \cup {Inf} :
          smp = SamplerCall(sigma, upbound)
    /\ MainIdle

SamplerNext == \E k \in Draws : SampleDraw(k) /\ UNCHANGED <<pvars, mvars>>

SamplerSpec == SamplerInit /\ [][SamplerNext]_vars

(***************************************************************************)
(* The configuration.  A task definition of tasks.yaml is a record         *)
(* [enable, keys, profile, sigma, upbound, time]: enable is "absent",      *)
(* "true" or "false" (any falsy value); keys are the required keys that    *)
(* are present; sigma and upbound are [given, v].  A task's id is its      *)
(* position in the list.  Times of day are seconds of the scaled day.      *)
(***************************************************************************)
Keys == {"id", "uid", "cookie", "profile"}

NoDur == [given |-> FALSE, v |-> NumVal(0)]
Dur(v) == [given |-> TRUE, v |-> v]

TaskDef(enable, keys, profile, sigma, upbound, time) ==
    [enable |-> enable, keys |-> keys, profile |-> profile, sigma |-> sigma,
     upbound |-> upbound, time |-> time]

TaskDefs ==
    { TaskDef("absent", Keys, "p.yaml", NoDur, NoDur, "absent"),
      TaskDef("true", Keys, "p.yaml", Dur(StrVal(<<"6", "s">>)), Dur(NumVal(7)),
              "absent"),
      TaskDef("absent", Keys, "p.yaml", Dur(NumVal(6)), Dur(StrVal(<<"5", "s">>)),
              "12:00"),
      TaskDef("absent", Keys, "p.yaml", Dur(NumVal(3)), Dur(NumVal(7)), "absent"),
      TaskDef("false", {"id"}, "none.yaml", Dur(StrVal(<<"x">>)), NoDur, "absent"),
      TaskDef("absent", Keys \ {"cookie"}, "p.yaml", NoDur, NoDur, "absent"),
      TaskDef("true", Keys, "none.yaml", NoDur, NoDur, "absent"),
      TaskDef("absent", Keys, "bad.yaml", NoDur, NoDur, "absent"),
      TaskDef("absent", Keys, "p.yaml", Dur(StrVal(<<"x">>)), Dur(NumVal(7)),
              "absent"),
      TaskDef("absent", Keys, "p.yaml", Dur(StrVal(<<"6", "s">>)),
              Dur(StrVal(<<"s">>)), "absent") }

\* line 156: os.path.exists(profile_path)
FileExists(f) == f \in ProfileFiles \cup {"bad.yaml"}

\* lines 159-164: yaml.load raises yaml.parser.ParserError
ParserError(f) == f = "bad.yaml"

\* the second of the day of a time of day 'HH:MM'
AtTime(t) == IF t = "07:00" THEN 2 ELSE IF t = "12:00" THEN 3 ELSE 5

DisabledNever(task) == FALSE

\* line 130: 'enable' in task and not task['enable']
Disabled(task) == task.enable = "false"

\* lines 168-182: the value create_task stores for a duration of the task
Parsed(dur) == IF dur.given THEN parse_time_string(dur.v) ELSE PyInt(0)

NoTask == [ok |-> FALSE, job |-> FALSE, payload |-> NoPayload]

\* create_task with the parsed sigma and upbound
Validated(task, id, sigma, upbound) ==
    IF Disabled(task)
    THEN [ok |-> TRUE, job |-> FALSE, payload |-> NoPayload]
    ELSE IF Keys \ task.keys # {} THEN NoTask
    ELSE IF ~FileExists(task.profile) THEN NoTask
    ELSE IF ParserError(task.profile) THEN NoTask
    ELSE IF sigma.none THEN NoTask
    ELSE IF upbound.none THEN NoTask
    ELSE [ok |-> TRUE, job |-> TRUE,
          payload |-> [id |-> id, profile |-> task.profile,
                       time |-> IF task.time = "absent" THEN "07:00"
                                ELSE task.time,
                       sigma |-> sigma.val, upbound |-> upbound.val]]

\* create_task (lines 129-193): [ok, job, payload]: whether it returned True,
\* whether it registered a daily job, and the payload of that job
create_task(task, id) ==
    Validated(task, id, Parsed(task.sigma), Parsed(task.upbound))

\* schedule.every().day.at(t).do(f, payload): the job, first due at t today
DailyJob(jid, kind, payload, t) ==
    [jid |-> jid, kind |-> kind, payload |-> payload, next_run |-> AtTime(t),
     period |-> DaySecs, seen |-> IF kind = "check" THEN AtStart[payload.profile] ELSE ""]

\* schedule.every(delay).seconds.do(do_task, payload, cancel_job=True)
FollowUpJob(jid, payload, delay) ==
    [jid |-> jid, kind |-> "task", payload |-> payload, next_run |-> now + delay,
     period |-> delay, seen |-> fileContent[payload.profile]]

ContinueAlways(r) == TRUE

\* line 208: the loop of load_tasks goes on after create_task returned r
Continue(r) == r.ok

\* the loop of lines 207-209, result[i] being what create_task returns for
\* task i: the loop reaches task i when create_task let it continue for
\* every task before it, and create_task registers the job of a task it
\* accepts
LoadLoop(js, result) ==
    LET reached == {i \in DOMAIN result :
                       \A k \in 1..(i - 1) : Continue(result[k])}
        registered == {i \in reached : result[i].job}
    IN [ok |-> \A i \in reached : Continue(result[i]),
        jobs |-> js \o
            [p \in 1..Cardinality(registered) |->
                LET i == CHOOSE i \in registered :
                            Cardinality({k \in registered : k < i}) + 1 = p
                IN DailyJob(Len(js) + p, "check", result[i].payload,
                            result[i].payload.time)]]

\* load_tasks (lines 196-210) with the job list js: [ok, jobs]
load_tasks(c, js) ==
    IF c.state # "ok" THEN [ok |-> FALSE, jobs |-> js]
    ELSE LoadLoop(js, [i \in 1..Len(c.tasks) |-> create_task(c.tasks[i], i)])

Configs ==
    [state : {"absent", "no_tasks"}, tasks : {<<>>}]
    \cup [state : {"ok"},
          tasks : UNION {[1..n -> TaskDefs] : n \in 1..MaxTasks}]

\* The state when load_tasks is called: line 232 has registered the daily
\* job of update_server_time_offset.
Init ==
    /\ input = NumVal(0)
    /\ output = NoOutput
    /\ smp = IdleSampler
    /\ cfg \in Configs
    /\ fileContent = AtStart
    /\ pc = "load"
    /\ loaded = "pending"
    /\ exitStatus = 0
    /\ jobs = <<DailyJob(1, "offset", NoPayload, "23:00")>>
    /\ nextJid = 2
    /\ now = 0
    /\ pending = <<>>
    /\ cur = NoJob
    /\ data = ""
    /\ posts = <<>>
    /\ runs = <<0>>
    /\ submitted = {}
    /\ exhausted = FALSE
    /\ lastCheck = NoCheck

\* lines 234-238 once load_tasks has returned r
Started(r) ==
    /\ jobs' = r.jobs
    /\ nextJid' = Len(r.jobs) + 1
    /\ runs' = [j \in 1..Len(r.jobs) |-> 0]
    /\ loaded' = IF r.ok THEN "ok" ELSE "failed"
    /\ pc' = IF r.ok THEN "poll" ELSE "exited"
    /\ exitStatus' = IF r.ok THEN 0 ELSE 1

\* lines 234-238: load_tasks, then exit(1) or the scheduler loop
Main ==
    /\ pc = "load"
    /\ Started(load_tasks(cfg, jobs))
    /\ UNCHANGED <<input, output, smp, cfg, fileContent, now, pending, cur, data,
                   posts, submitted, exhausted, lastCheck>>

(***************************************************************************)
(* The scheduler loop (lines 239-241) and schedule's run_pending.          *)
(***************************************************************************)
JobIndex(js, jid) == CHOOSE i \in 1..Len(js) : js[i].jid = jid

RemoveAt(s, i) == SubSeq(s, 1, i - 1) \o SubSeq(s, i + 1, Len(s))

\* sorted(job for job in jobs if job.should_run): the due jobs by next_run,
\* jobs due at the same time in the order of the job list
SortedDue(js) ==
    LET due == {i \in 1..Len(js) : js[i].next_run <= now}
        Before(k, i) == \/ js[k].next_run < js[i].next_run
                        \/ js[k].next_run = js[i].next_run /\ k < i
        rank(i) == Cardinality({k \in due : Before(k, i)}) + 1
    IN [p \in 1..Cardinality(due) |->
           js[CHOOSE i \in due : rank(i) = p].jid]

\* run_pending: the jobs that are due, in the order they will run
RunPending ==
    /\ pc = "poll"
    /\ pending' = SortedDue(jobs)
    /\ pc' = "jobs"
    /\ UNCHANGED <<input, output, smp, cfg, fileContent, loaded, exitStatus, jobs,
                   nextJid, now, cur, data, posts, runs, submitted, exhausted,
                   lastCheck>>

\* line 241: time.sleep(1) once run_pending has returned (the histories of
\* the round's callbacks are cleared)
Sleep ==
    /\ pc = "jobs"
    /\ pending = <<>>
    /\ now < MaxTime
    /\ now' = now + 1
    /\ pc' = "poll"
    /\ posts' = <<>>
    /\ lastCheck' = NoCheck
    /\ UNCHANGED <<input, output, smp, cfg, fileContent, loaded, exitStatus, jobs,
                   nextJid, pending, cur, data, runs, submitted, exhausted>>

\* Job.run after the callback returned: the job's next run
Rescheduled(js, jid) ==
    [i \in 1..Len(js) |->
        IF js[i].jid # jid THEN js[i]
        ELSE IF js[i].kind = "task"
             THEN [js[i] EXCEPT !.next_run = now + js[i].period]
             ELSE [js[i] EXCEPT !.next_run = js[i].next_run + DaySecs]]

\* schedule's cancel_job
Cancelled(js, jid) == RemoveAt(js, JobIndex(js, jid))

ReturnsNone(job) == FALSE

\* lines 97-98: do_task returns schedule.CancelJob
ReturnsCancelJob(job) == job.kind = "task"

\* the job list after the callback of job returned
AfterReturn(js, job) ==
    IF ReturnsCancelJob(job) THEN Cancelled(js, job.jid)
    ELSE Rescheduled(js, job.jid)

ReadProfileCached(job) == job.seen

\* lines 92-93: do_task reads the profile file
ReadProfile(job) == fileContent[job.payload.profile]

\* line 105: sigma > 5 and upbound > 5
Jittered(payload) == payload.sigma > MinJitter /\ payload.upbound > MinJitter

\* an exception nothing catches leaves run_pending and the loop of line 239
Swallowed == "jobs"

Unhandled == "crashed"

\* the callback of the next pending job starts
RunJob ==
    /\ pc = "jobs"
    /\ pending # <<>>
    /\ LET job == jobs[JobIndex(jobs, Head(pending))]
       IN /\ pending' = Tail(pending)
          /\ runs' = [runs EXCEPT ![job.jid] = @ + 1]
          /\ \/ \* update_server_time_offset (lines 223-226) returns
                /\ job.kind = "offset"
                /\ jobs' = Rescheduled(jobs, job.jid)
                /\ UNCHANGED <<pc, cur, smp, data, posts>>
             \/ \* update_server_time_offset fails on all of its tries
                /\ job.kind = "offset"
                /\ pc' = Unhandled
                /\ UNCHANGED <<jobs, cur, smp, data, posts>>
             \/ \* do_task_check, line 106: the delay is sampled
                /\ job.kind = "check"
                /\ Jittered(job.payload)
                /\ smp' = SamplerCall(job.payload.sigma, job.payload.upbound)
                /\ cur' = job
                /\ pc' = "sampling"
                /\ UNCHANGED <<jobs, data, posts>>
             \/ \* do_task, from do_task_check (line 110) or as a follow-up
                /\ \/ job.kind = "check" /\ ~Jittered(job.payload)
                   \/ job.kind = "task"
                /\ data' = ReadProfile(job)
                /\ posts' = <<>>
                /\ cur' = job
                /\ pc' = "sending"
                /\ UNCHANGED <<jobs, smp>>
    /\ UNCHANGED <<input, output, cfg, fileContent, loaded, exitStatus, nextJid,
                   now, submitted, exhausted, lastCheck>>

\* do_task_check, lines 106-108: one draw of rayleigh_dist, and what
\* follows when it returns or raises
CheckSample(k) ==
    /\ pc = "sampling"
    /\ LET s == SamplerStep(smp, k)
       IN \/ /\ s.status = "sampling"
             /\ smp' = s
             /\ UNCHANGED <<pc, jobs, nextJid, cur, runs, lastCheck>>
          \/ /\ s.status = "returned"
             /\ jobs' = Append(Rescheduled(jobs, cur.jid),
                               FollowUpJob(nextJid, cur.payload, s.result \div 100))
             /\ nextJid' = nextJid + 1
             /\ runs' = Append(runs, 0)
             /\ lastCheck' = [ended |-> TRUE, sigma |-> cur.payload.sigma,
                              upbound |-> cur.payload.upbound,
                              deferred |-> TRUE, sent |-> FALSE]
             /\ smp' = IdleSampler
             /\ cur' = NoJob
             /\ pc' = "jobs"
          \/ /\ s.status = "raised"
             /\ lastCheck' = [ended |-> TRUE, sigma |-> cur.payload.sigma,
                              upbound |-> cur.payload.upbound,
                              deferred |-> FALSE, sent |-> FALSE]
             /\ smp' = s
             /\ pc' = Unhandled
             /\ UNCHANGED <<jobs, nextJid, cur, runs>>
    /\ UNCHANGED <<input, output, cfg, fileContent, loaded, exitStatus, now,
                   pending, data, posts, submitted, exhausted>>

RetryAllowedOnceMore(n) == n <= Tries

\* retry: after n failed attempts another one is made
RetryAllowed(n) == n < Tries

\* how a do_task_check that called do_task ended
CheckEnded(job, lc) ==
    IF job.kind = "check"
    THEN [ended |-> TRUE, sigma |-> job.payload.sigma,
          upbound |-> job.payload.upbound, deferred |-> FALSE, sent |-> TRUE]
    ELSE lc

\* send_request_with_retry (lines 40-51): one attempt of the POST, and what
\* follows when the call returns or raises
Post(outcome) ==
    /\ pc = "sending"
    /\ posts' = Append(posts, outcome)
    /\ submitted' = submitted \cup {cur.payload.id}
    /\ \/ \* a response: send_request logs it, do_task returns
          /\ outcome = "response"
          /\ jobs' = AfterReturn(jobs, cur)
          /\ lastCheck' = CheckEnded(cur, lastCheck)
          /\ cur' = NoJob
          /\ data' = ""
          /\ pc' = "jobs"
          /\ UNCHANGED exhausted
       \/ \* a RequestException, and the retry sleeps before the next attempt
          /\ outcome = "RequestException"
          /\ RetryAllowed(Len(posts) + 1)
          /\ UNCHANGED <<jobs, lastCheck, cur, data, pc, exhausted>>
       \/ \* a RequestException on the last attempt is raised to the caller
          /\ outcome = "RequestException"
          /\ ~RetryAllowed(Len(posts) + 1)
          /\ exhausted' = TRUE
          /\ lastCheck' = CheckEnded(cur, lastCheck)
          /\ pc' = Unhandled
          /\ UNCHANGED <<jobs, cur, data>>
    /\ UNCHANGED <<input, output, smp, cfg, fileContent, loaded, exitStatus,
                   nextJid, now, pending, runs>>

\* the user edits a profile file while the process runs
EditProfile(f, c) ==
    /\ pc \in {"poll", "jobs", "sampling", "sending"}
    /\ fileContent[f] # c
    /\ fileContent' = [fileContent EXCEPT ![f] = c]
    /\ UNCHANGED <<input, output, smp, cfg, pc, loaded, exitStatus, jobs, nextJid,
                   now, pending, cur, data, posts, runs, submitted, exhausted,
                   lastCheck>>

Next ==
    \/ Main
    \/ RunPending
    \/ RunJob
    \/ \E k \in Draws : CheckSample(k)
    \/ \E outcome \in {"response", "RequestException"} : Post(outcome)
    \/ Sleep
    \/ \E f \in ProfileFiles, c \in Contents : EditProfile(f, c)

Spec == Init /\ [][Next]_vars

(***************************************************************************)
(* Claims about the parser and the sampler.                                *)
(***************************************************************************)
IsDigits(s) == s # <<>> /\ \A i \in 1..Len(s) : s[i] \in Digits

\* s is '<M>m', '<S>s' or '<M>m<S>s', the minutes component ending at k
HasForm(s, k) ==
    LET pre == SubSeq(s, 1, k)
        suf == SubSeq(s, k + 1, Len(s))
    IN /\ pre = <<>> \/ (pre[k] = "m" /\ IsDigits(SubSeq(pre, 1, k - 1)))
       /\ suf = <<>> \/ (suf[Len(suf)] = "s"
                          /\ IsDigits(SubSeq(suf, 1, Len(suf) - 1)))
       /\ s # <<>>

WellFormed(s) == \E k \in 0..Len(s) : HasForm(s, k)

FormValue(s) ==
    LET k == CHOOSE k \in 0..Len(s) : HasForm(s, k)
    IN 60 * (IF k = 0 THEN 0 ELSE ToInt(SubSeq(s, 1, k - 1)))
       + (IF k = Len(s) THEN 0 ELSE ToInt(SubSeq(s, k + 1, Len(s) - 1)))

\* C8: parse_time_string returns 60*M + S for every string of the form
\* '<M>m', '<S>s' or '<M>m<S>s', the invalid result for every other string,
\* and every numeric input unchanged.
C8_ParserResult ==
    output.done =>
        IF input.isStr
        THEN IF WellFormed(input.str)
             THEN ~output.none /\ output.val = FormValue(input.str)
             ELSE output.none
        ELSE ~output.none /\ output.val = input.num

\* The part of C8 the code satisfies: well-formed strings and numbers.
C8_WellFormedValue ==
    output.done /\ (~input.isStr \/ WellFormed(input.str)) =>
        /\ ~output.none
        /\ output.val = IF input.isStr THEN FormValue(input.str) ELSE input.num

\* C6: every value rayleigh_dist returns for sigma > 0 and a positive bound
\* (math.inf included) is non-negative and strictly below the bound.
C6_SampleBelowBound ==
    smp.status = "returned" /\ smp.sigma > 0 /\ smp.upbound > 0 =>
        smp.result >= 0 /\ smp.result < Hundredths(smp.upbound)

\* a value returned after at least one out-of-bound draw was rejected
C6_Witness ==
    /\ smp.status = "returned" /\ smp.upbound > 0 /\ smp.depth > 1
    /\ smp.result > 0

\* C7: for sigma > 0 and a positive bound the resampling of rayleigh_dist
\* ends with a value being returned (it never ends without one).
C7_ReturnsValue ==
    smp.sigma > 0 /\ smp.upbound > 0 => smp.status # "raised"

(***************************************************************************)
(* Claims about the process.                                               *)
(***************************************************************************)
IsDisabled(task) == task.enable = "false"

\* a task definition for which create_task reports an error
FailsValidation(task) ==
    /\ ~IsDisabled(task)
    /\ \/ Keys \ task.keys # {}
       \/ ~FileExists(task.profile)
       \/ ParserError(task.profile)
       \/ task.sigma.given /\ parse_time_string(task.sigma.v).none
       \/ task.upbound.given /\ parse_time_string(task.upbound.v).none

TaskIds == 1..Len(cfg.tasks)

NothingFired == (\A j \in DOMAIN runs : runs[j] = 0) /\ submitted = {}

C2_JitterGating ==
    lastCheck.ended =>
        /\ lastCheck.deferred <=> (lastCheck.sigma > 5 /\ lastCheck.upbound > 5)
        /\ ~(lastCheck.sigma > 5 /\ lastCheck.upbound > 5) =>
               ~lastCheck.deferred /\ lastCheck.sent

\* What holds of the gating: a follow-up job is added only above the
\* threshold, the submission is synchronous exactly at or below it, and
\* above it the trigger ends without a follow-up job only when the sampler
\* raised.
C2_GatingUnlessRaised ==
    lastCheck.ended =>
        /\ lastCheck.deferred => lastCheck.sigma > 5 /\ lastCheck.upbound > 5
        /\ lastCheck.sent <=> ~(lastCheck.sigma > 5 /\ lastCheck.upbound > 5)
        /\ ~lastCheck.deferred /\ ~lastCheck.sent => smp.status = "raised"

DailyCount == Cardinality({i \in 1..Len(jobs) : jobs[i].kind # "task"})

\* C3: a follow-up job fires once, when its delay has elapsed, and is then
\* removed from the job list: one that has fired is in the list only while
\* its own callback executes (or the process ended in it), and the daily
\* jobs stay registered.
C3_FollowUpOnce ==
    /\ \A jid \in DOMAIN runs : jid > DailyCount => runs[jid] <= 1
    /\ \A i \in 1..Len(jobs) :
          jobs[i].kind = "task" /\ runs[jobs[i].jid] > 0 =>
              cur.jid = jobs[i].jid /\ pc \in {"sending", "crashed"}
    /\ cur.kind = "task" => now >= cur.next_run
    /\ loaded = "ok" =>
          \A t \in TaskIds :
              ~IsDisabled(cfg.tasks[t]) =>
                  \E i \in 1..Len(jobs) :
                      jobs[i].kind = "check" /\ jobs[i].payload.id = t

\* a follow-up job has fired and is gone, and the daily job of its task has
\* fired again on the following day
C3_Witness ==
    /\ pc = "jobs"
    /\ \E jid \in DOMAIN runs :
          /\ jid > DailyCount /\ runs[jid] = 1
          /\ \A i \in 1..Len(jobs) : jobs[i].jid # jid
    /\ \E i \in 1..Len(jobs) : jobs[i].kind = "check" /\ runs[jobs[i].jid] = 2

C5_Contained == exhausted => pc # "crashed"

\* C5, amended: a submission that fails on all of its attempts ends the
\* whole process: the loop polls no more and no job fires afterwards.
C5_ProcessEnds ==
    exhausted =>
        /\ pc = "crashed"
        /\ ~ENABLED (RunPending \/ RunJob \/ Sleep)

\* the retries are exhausted while the daily job of another task is
\* registered
C5_Witness ==
    /\ exhausted
    /\ \E i \in 1..Len(jobs) :
          jobs[i].kind = "check" /\ jobs[i].payload.id # cur.payload.id

\* C9: a disabled task registers no job, is not validated and counts as a
\* success: the load succeeds when every other task is valid, and no
\* submission is ever made for the disabled task.
C9_DisabledSkipped ==
    cfg.state = "ok" =>
        /\ \A t \in TaskIds :
              IsDisabled(cfg.tasks[t]) =>
                  /\ t \notin submitted
                  /\ \A i \in 1..Len(jobs) : jobs[i].payload.id # t
        /\ pc # "load" /\ (\A t \in TaskIds : ~FailsValidation(cfg.tasks[t])) =>
              loaded = "ok"

\* the load succeeded with a disabled task that lacks required fields, and
\* the task listed after it has submitted
C9_Witness ==
    /\ loaded = "ok" /\ Len(cfg.tasks) = 2
    /\ IsDisabled(cfg.tasks[1]) /\ Keys \ cfg.tasks[1].keys # {}
    /\ 2 \in submitted

\* C10: the data a submission sends are the content of the profile file at
\* the moment do_task starts executing.
C10_ProfileFresh ==
    [][pc # "sending" /\ pc' = "sending" =>
          data' = fileContent'[cur'.payload.profile]]_vars

\* a follow-up job sends a content that differs from the one the file had
\* when the daily trigger fired (and when the tasks were loaded)
C10_Witness ==
    /\ pc = "sending" /\ cur.kind = "task"
    /\ data # cur.seen /\ data # AtStart[cur.payload.profile]

====
